---- MODULE Spec2Model ----
(***************************************************************************)
(* A model of src/src/server.ts: the language server that turns manifest   *)
(* file events into analysis cycles (sendDiagnostics).  A cycle parses the *)
(* manifest, serves the cache hits, queries the cache misses in batches of *)
(* ten, republishes the diagnostics after every batch and ends with a     *)
(* summary notification.  Edits are debounced by one process-wide timer.   *)
(*                                                                         *)
(* One step of the model is one run-to-completion turn of the event loop:  *)
(* a client event handler, a timer callback, the continuation of the      *)
(* awaited collector, or the continuation chain of one settled fetch.      *)
(***************************************************************************)
EXTENDS Integers, Sequences, FiniteSets, TLC

\* ------------------------------------------------------------------ bounds
\* Number of client events (open, change, save, close) in a behaviour.
MaxEvents == 2
\* Largest payload and batch size the slicePayload harness draws.
MaxPayload == 23
MaxBatch == 10
\* Largest dependency, diagnostic, vulnerability, advisory and exploit count
\* the getCAmsg harness draws.
MaxCount == 2

\* ------------------------------------------------------- program constants
batchSize == 10
DebounceMs == 500
\* The model's clock advances in steps of half a debounce window.
TickMs == DebounceMs \div 2

Min(a, b) == IF a <= b THEN a ELSE b
CeilDiv(n, b) == (n + b - 1) \div b

\* ------------------------------------------------------------ documents
PackageJsonUri == "file:///a/package.json"
GoModUri == "file:///b/go.mod"
\* The client synchronises manifest documents only.
URIs == {PackageJsonUri, GoModUri}

\* path.basename(url.parse(uri).pathname)
FileName(uri) ==
    CASE uri = PackageJsonUri -> "package.json"
      [] uri = GoModUri -> "go.mod"
      [] OTHER -> "unknown"

\* files.on(EventStream.Diagnostics, matcher, callback), in registration order.
Handlers ==
    << [matcher |-> "package.json", ecosystem |-> "npm"],
       [matcher |-> "pom.xml", ecosystem |-> "maven"],
       [matcher |-> "requirements.txt", ecosystem |-> "pypi"],
       [matcher |-> "go.mod", ecosystem |-> "golang"] >>

Ecosystems == {Handlers[i].ecosystem : i \in DOMAIN Handlers}

\* AnalysisFiles.run: the index of the first handler whose matcher accepts the
\* file name, 0 when none does (run then returns without calling anything).
RunHandler(file) ==
    LET hit == {i \in DOMAIN Handlers : Handlers[i].matcher = file}
    IN  IF hit = {} THEN 0 ELSE CHOOSE i \in hit : \A j \in hit : i <= j

\* ------------------------------------------------------------ manifests
\* The characters of the version texts that occur in the manifests.
AlNum == {"0", "1", "a"}
Chars(version) ==
    CASE version = "1.0" -> <<"1", ".", "0">>
      [] version = "^1.0" -> <<"^", "1", ".", "0">>
      [] version = " 1.0.a " -> <<" ", "1", ".", "0", ".", "a", " ">>
      [] version = "1.0.0.1" -> <<"1", ".", "0", ".", "0", ".", "1">>
      [] version = "1.0.0.0.1" -> <<"1", ".", "0", ".", "0", ".", "0", ".", "1">>
      [] version = "1..0" -> <<"1", ".", ".", "0">>
      [] version = "1.0." -> <<"1", ".", "0", ".">>
      [] version = ".1" -> <<".", "1">>
      [] version = "" -> << >>
      [] OTHER -> << >>

RECURSIVE TrimLeft(_)
TrimLeft(s) == IF s # <<>> /\ Head(s) = " " THEN TrimLeft(Tail(s)) ELSE s
RECURSIVE TrimRight(_)
TrimRight(s) ==
    IF s # <<>> /\ s[Len(s)] = " " THEN TrimRight(SubSeq(s, 1, Len(s) - 1)) ELSE s
Trim(s) == TrimRight(TrimLeft(s))

\* /^([a-zA-Z0-9]+\.)?([a-zA-Z0-9]+\.)?([a-zA-Z0-9]+\.)?([a-zA-Z0-9]+)$/ :
\* one to four non-empty alphanumeric segments separated by single dots.
regexVersion(s) ==
    /\ Len(s) > 0
    /\ \A i \in 1..Len(s) : s[i] \in AlNum \cup {"."}
    /\ s[1] # "."
    /\ s[Len(s)] # "."
    /\ \A i \in 1..(Len(s) - 1) : ~(s[i] = "." /\ s[i + 1] = ".")
    /\ Cardinality({i \in 1..Len(s) : s[i] = "."}) <= 3

\* The manifest texts a client sends, and the declarations each holds in
\* textual order: "bad" does not parse, "small" declares two packages, "big"
\* declares those two and eighteen more, in every shape of version text, the
\* last of them a second declaration of package 1 at version 1.0.
Decl(n, v) == [name |-> n, version |-> v]
Declarations(text) ==
    CASE text = "small" -> <<Decl(1, "1.0"), Decl(2, "^1.0")>>
      [] text = "big" -> <<Decl(1, "1.0"), Decl(2, "^1.0"), Decl(3, " 1.0.a ")>>
                            \o [i \in 1..10 |-> Decl(i + 3, "1.0")]
                            \o <<Decl(14, "1.0.0.0.1"), Decl(15, "1..0"), Decl(16, ""),
                                 Decl(17, "1.0."), Decl(18, ".1"), Decl(19, "1.0.0.1"),
                                 Decl(1, "1.0")>>
      [] OTHER -> << >>

TextsFor(uri) ==
    CASE uri = PackageJsonUri -> {"bad", "small", "big"}
      [] uri = GoModUri -> {"small"}
      [] OTHER -> {}

\* collector.collect(contents) resolves with the dependencies, each with the
\* position of its declaration; it rejects when the text does not parse.
CollectRejects(text) == text = "bad"
Collect(text) ==
    [i \in 1..Len(Declarations(text)) |->
        [name |-> Declarations(text)[i].name,
         version |-> Declarations(text)[i].version,
         pos |-> i]]

\* ------------------------------------------------------- remote service
\* What the remote knowledge base holds for a package.
Advisory(name) ==
    CASE name = 1 -> [vulnerabilityCount |-> 1, advisoryCount |-> 0, exploitCount |-> 1]
      [] name = 2 -> [vulnerabilityCount |-> 0, advisoryCount |-> 1, exploitCount |-> 0]
      [] name = 15 -> [vulnerabilityCount |-> 1, advisoryCount |-> 0, exploitCount |-> 0]
      [] name = 3 -> [vulnerabilityCount |-> 2, advisoryCount |-> 0, exploitCount |-> 0]
      [] name = 13 -> [vulnerabilityCount |-> 0, advisoryCount |-> 1, exploitCount |-> 0]
      [] OTHER -> [vulnerabilityCount |-> 0, advisoryCount |-> 0, exploitCount |-> 0]

\* The body of a 2xx response: one record per requested package, in order.
Respond(request) ==
    [i \in 1..Len(request.package_versions) |->
        LET item == request.package_versions[i]
            adv == Advisory(item.package)
        IN  [package |-> item.package, version |-> item.version,
             vulnerabilityCount |-> adv.vulnerabilityCount,
             advisoryCount |-> adv.advisoryCount,
             exploitCount |-> adv.exploitCount]]

\* ---------------------------------------------------------------- getCAmsg
\* A message is the sequence of its words; a number is written in decimal.
vulStr(count) == IF count = 1 THEN "Vulnerability" ELSE "Vulnerabilities"
advStr(count) == IF count = 1 THEN "Advisory" ELSE "Advisories"

\* What `!count || text` yields for a count of zero: the boolean true.
JsTrue == << "true" >>

\* parts.join(' and ')
RECURSIVE Join(_, _)
Join(parts, sep) ==
    IF parts = << >> THEN << >>
    ELSE IF Len(parts) = 1 THEN parts[1]
    ELSE parts[1] \o sep \o Join(Tail(parts), sep)

NoVulnMsg == << "No", "potential", "security", "vulnerabilities", "found" >>
QuickFixMsg == << "along", "with", "quick", "fixes" >>

\* A summary that offers quick fixes only when a known vulnerability was found.
getCAmsg_QuickFixVulnOnly(deps, diagnostics, totalCount) ==
    LET head == << "Scanned", ToString(Len(deps)),
                   IF Len(deps) = 1 THEN "dependency," ELSE "dependencies," >>
        knownVulnMsg ==
            IF totalCount.vulnerabilityCount = 0 THEN JsTrue
            ELSE << ToString(totalCount.vulnerabilityCount), "Known", "Security",
                    vulStr(totalCount.vulnerabilityCount) >>
        advisoryMsg ==
            IF totalCount.advisoryCount = 0 THEN JsTrue
            ELSE << ToString(totalCount.advisoryCount), "Security",
                    advStr(totalCount.advisoryCount) >>
        joined == Join(SelectSeq(<< knownVulnMsg, advisoryMsg >>, LAMBDA x : x # JsTrue),
                       << "and" >>)
        exploit ==
            IF totalCount.exploitCount > 0
            THEN << "with", ToString(totalCount.exploitCount), "Exploitable",
                    vulStr(totalCount.exploitCount) >>
            ELSE << >>
        fixes == IF totalCount.vulnerabilityCount > 0 THEN QuickFixMsg ELSE << >>
        summaryMsg == joined \o exploit \o fixes
    IN  IF Len(diagnostics) > 0
        THEN head \o (IF summaryMsg # << >> THEN << "flagged" >> \o summaryMsg ELSE NoVulnMsg)
        ELSE head \o NoVulnMsg

getCAmsg(deps, diagnostics, totalCount) ==
    LET head == << "Scanned", ToString(Len(deps)),
                   IF Len(deps) = 1 THEN "dependency," ELSE "dependencies," >>
        knownVulnMsg ==
            IF totalCount.vulnerabilityCount = 0 THEN JsTrue
            ELSE << ToString(totalCount.vulnerabilityCount), "Known", "Security",
                    vulStr(totalCount.vulnerabilityCount) >>
        advisoryMsg ==
            IF totalCount.advisoryCount = 0 THEN JsTrue
            ELSE << ToString(totalCount.advisoryCount), "Security",
                    advStr(totalCount.advisoryCount) >>
        joined == Join(SelectSeq(<< knownVulnMsg, advisoryMsg >>, LAMBDA x : x # JsTrue),
                       << "and" >>)
        exploit ==
            IF totalCount.exploitCount > 0
            THEN << "with", ToString(totalCount.exploitCount), "Exploitable",
                    vulStr(totalCount.exploitCount) >>
            ELSE << >>
        fixes ==
            IF totalCount.vulnerabilityCount + totalCount.advisoryCount > 0
            THEN QuickFixMsg ELSE << >>
        summaryMsg == joined \o exploit \o fixes
    IN  IF Len(diagnostics) > 0
        THEN head \o (IF summaryMsg # << >> THEN << "flagged" >> \o summaryMsg ELSE NoVulnMsg)
        ELSE head \o NoVulnMsg

\* ----------------------------------------------------- fetchVulnerabilities
\* The request fetchVulnerabilities sends.  The url is the sequence of its
\* parts as the template strings append them; an option that is not set is "".
fetchRequest(config, reqData, manifestHash, requestId) ==
    LET base == IF config.three_scale_user_token # ""
                THEN << config.server_url, "/component-analyses/", "?", "user_key", "=",
                        config.three_scale_user_token >>
                ELSE << config.server_url, "/component-analyses" >>
        content == << "&", "utm_content", "=", manifestHash >>
        source == IF config.source # ""
                  THEN << "&", "utm_source", "=", config.source >>
                  ELSE << >>
    IN  [url |-> base \o content \o source,
         method |-> "post",
         body |-> reqData,
         headers |-> [request_id |-> requestId, uuid |-> config.uuid]]

\* ------------------------------------------------------------ slicePayload
\* A slicing loop that cuts each chunk one item short of the batch size.
RECURSIVE SliceFrom_Short(_, _, _, _)
SliceFrom_Short(payload, size, ecosystem, i) ==
    IF i >= Len(payload) THEN <<>>
    ELSE <<[ecosystem |-> ecosystem,
            package_versions |-> SubSeq(payload, i + 1, Min(i + size - 1, Len(payload)))]>>
         \o SliceFrom_Short(payload, size, ecosystem, i + size)

\* The loop of slicePayload from index i on: payload.slice(i, i + batchSize).
RECURSIVE SliceFrom(_, _, _, _)
SliceFrom(payload, size, ecosystem, i) ==
    IF i >= Len(payload) THEN <<>>
    ELSE <<[ecosystem |-> ecosystem,
            package_versions |-> SubSeq(payload, i + 1, Min(i + size, Len(payload)))]>>
         \o SliceFrom(payload, size, ecosystem, i + size)

\* A slicing that stops at the last full chunk.
slicePayload_FullOnly(payload, size, ecosystem) ==
    SliceFrom(SubSeq(payload, 1, size * (Len(payload) \div size)), size, ecosystem, 0)

slicePayload(payload, size, ecosystem) == SliceFrom(payload, size, ecosystem, 0)

\* ------------------------------------------------------------------ state
VARIABLES
    file_data,    \* server.files.file_data: the text stored per URI
    timers,       \* the live setTimeout timers: [id, uri, remaining]
    checkDelay,   \* the timer handle kept by the server, 0 before the first edit
    cycles,       \* the analysis cycles started so far, in order of start
    cache,        \* globalCache: per ecosystem, the cached vulnerability records
    published,    \* per URI, the diagnostics the editor shows and the cycle that sent them
    nEvents,      \* number of client events handled
    step,         \* the handler that ran in the last step, and its arguments
    burst,        \* the edits the pending debounce timer stands for
    closed,       \* URIs closed and not touched by the client since
    sliceIn,      \* slicePayload harness: the arguments
    sliceOut,     \* slicePayload harness: the result, once applied
    callIn,       \* getCAmsg / fetchVulnerabilities harness: the arguments
    callOut,      \* getCAmsg / fetchVulnerabilities harness: the result, once applied
    codeActionsMap, \* consumers.codeActionsMap: per anchor position, the quick fix registered last
    codeActions   \* the document and the return value of the last onCodeAction call

vars == << file_data, timers, checkDelay, cycles, cache, published,
           nEvents, step, burst, closed, sliceIn, sliceOut, callIn, callOut,
           codeActionsMap, codeActions >>

sliceVars == << sliceIn, sliceOut >>
callVars == << callIn, callOut >>
actionVars == << codeActionsMap, codeActions >>

\* What `step` holds after a handler ran; `cancelled` tells whether the
\* handler's clearTimeout hit a live timer.
Handled(kind, uri, text, cancelled) ==
    [kind |-> kind, uri |-> uri, text |-> text, cancelled |-> cancelled]
Continuation == Handled("continuation", "", "", FALSE)

\* class TotalCount
TotalCount == [vulnerabilityCount |-> 0, advisoryCount |-> 0, exploitCount |-> 0]

\* One entry of a cycle's record of what it sent, in the order it sent it.
\* A "publish" entry carries the diagnostics sent and the run that sent them:
\* -1 the clearing at the start, 0 the run on the cache hits, b the run on the
\* response of request b.
LogEv(ev, batch, diagnostics) == [ev |-> ev, batch |-> batch, diagnostics |-> diagnostics]

SeqMap(F(_), s) == [i \in 1..Len(s) |-> F(s[i])]

\* ------------------------------------------------------------------ cache
\* cache.get(keys): one item per key, in order; V holds the cached record of
\* the key's identity (name, version), and is empty on a miss.
CacheGet(store, keys) ==
    SeqMap(LAMBDA d :
             [K |-> d,
              V |-> LET found == {r \in store : r.package = d.name /\ r.version = d.version}
                    IN  IF found = {} THEN <<>> ELSE <<CHOOSE r \in found : TRUE>>],
           keys)

\* cache.add(records): write-through, a record replaces the entry of its identity.
CacheAdd(store, records) ==
    LET new == {records[i] : i \in DOMAIN records}
    IN  {r \in store : \A n \in new : ~(n.package = r.package /\ n.version = r.version)}
        \cup new

\* --------------------------------------------------------------- pipeline
\* deps and validPackages of a cycle whose collector resolved: only the
\* ecosystems other than golang filter on the version pattern.
\* A cycle that hands every collected dependency on, whatever the ecosystem.
ValidPackages_NoFilter(ecosystem, contents) == Collect(contents)

ValidPackages(ecosystem, contents) ==
    IF ecosystem # "golang"
    THEN SelectSeq(Collect(contents), LAMBDA d : regexVersion(Trim(Chars(d.version))))
    ELSE Collect(contents)

\* validPackages per ecosystem and text, computed once.
Texts == UNION {TextsFor(u) : u \in URIs}
validPackagesOf == [e \in Ecosystems |-> [t \in Texts |-> ValidPackages(e, t)]]

\* pkgMap.get(new SimpleDependency(r.package, r.version)); a later declaration
\* of an identity replaces an earlier one in the map.
PkgMapGet(validPackages, r) ==
    LET idx == {i \in DOMAIN validPackages :
                    /\ validPackages[i].name = r.package
                    /\ validPackages[i].version = r.version}
    IN  validPackages[CHOOSE i \in idx : \A j \in idx : j <= i]

\* SecurityEngine: one diagnostic, anchored at the dependency, for a record
\* that carries a vulnerability or an advisory.
EngineDiagnostics(dependency, r) ==
    IF r.vulnerabilityCount + r.advisoryCount > 0
    THEN <<[package |-> r.package, pos |-> dependency.pos]>>
    ELSE <<>>

RECURSIVE PipelineDiagnostics(_, _)
PipelineDiagnostics(validPackages, response) ==
    IF response = <<>> THEN <<>>
    ELSE EngineDiagnostics(PkgMapGet(validPackages, Head(response)), Head(response))
         \o PipelineDiagnostics(validPackages, Tail(response))

\* SecurityEngine: with every diagnostic it yields, the engine stores the quick
\* fix of the dependency in codeActionsMap under the diagnostic's anchor
\* position ("line|character"; a declaration's position is its line here),
\* in place of whatever the map held there.  `by` names the registering cycle.
codeAction(by, diagnostic) == [kind |-> "quickfix", package |-> diagnostic.package, by |-> by]

Registered(map, by, diagnostics) ==
    LET at(k) == {i \in DOMAIN diagnostics : diagnostics[i].pos = k}
    IN  [k \in DOMAIN map \cup {diagnostics[i].pos : i \in DOMAIN diagnostics} |->
            IF at(k) = {} THEN map[k]
            ELSE codeAction(by, diagnostics[CHOOSE i \in at(k) : \A j \in at(k) : j <= i])]

\* The sum of one count over the records of a response.
RECURSIVE CountOf(_, _)
CountOf(response, field) ==
    IF response = <<>> THEN 0
    ELSE Head(response)[field] + CountOf(Tail(response), field)

\* TotalCount after every record of the response has added its counts to it.
PipelineCounts(totalCount, response) ==
    [vulnerabilityCount |-> totalCount.vulnerabilityCount + CountOf(response, "vulnerabilityCount"),
     advisoryCount |-> totalCount.advisoryCount + CountOf(response, "advisoryCount"),
     exploitCount |-> totalCount.exploitCount + CountOf(response, "exploitCount")]

\* A run that publishes the diagnostics of its own response only.
runPipeline_OwnOnly(cyc, response, batch) ==
    LET own == PipelineDiagnostics(validPackagesOf[cyc.ecosystem][cyc.contents], response)
    IN  [cyc EXCEPT !.diagnostics = cyc.diagnostics \o own,
                    !.totalCount = PipelineCounts(cyc.totalCount, response),
                    !.log = Append(cyc.log, LogEv("publish", batch, own))]

\* runPipeline: every record of the response goes through the engines, which
\* append to the cycle's diagnostics and add to its counts; then the cycle's
\* whole diagnostics array is published for its URI.
runPipeline(cyc, response, batch) ==
    LET diagnostics ==
            cyc.diagnostics
                \o PipelineDiagnostics(validPackagesOf[cyc.ecosystem][cyc.contents], response)
    IN  [cyc EXCEPT !.diagnostics = diagnostics,
                    !.totalCount = PipelineCounts(cyc.totalCount, response),
                    !.log = Append(cyc.log, LogEv("publish", batch, diagnostics))]

\* The continuation of `await Promise.allSettled(allRequests)`: it runs in the
\* turn in which the last request settles, and sends the summary notification.
AllSettled(cyc) == \A i \in DOMAIN cyc.batches : cyc.batches[i].state # "inflight"

Summary(cyc) ==
    [data |-> getCAmsg(Declarations(cyc.contents), cyc.diagnostics, cyc.totalCount),
     diagCount |-> Len(cyc.diagnostics), vulnCount |-> cyc.totalCount,
     depCount |-> Len(Declarations(cyc.contents))]

\* A summary sent as soon as one request has settled.
Finish_Any(cyc) ==
    IF \E i \in DOMAIN cyc.batches : cyc.batches[i].state # "inflight"
    THEN [cyc EXCEPT !.pc = "done",
                     !.summary = Append(cyc.summary, Summary(cyc)),
                     !.log = Append(cyc.log, LogEv("done", 0, cyc.diagnostics))]
    ELSE cyc

\* A summary sent only when every request succeeded (Promise.all).
Finish_AllOk(cyc) ==
    IF \A i \in DOMAIN cyc.batches : cyc.batches[i].state = "ok"
    THEN [cyc EXCEPT !.pc = "done",
                     !.summary = Append(cyc.summary, Summary(cyc)),
                     !.log = Append(cyc.log, LogEv("done", 0, cyc.diagnostics))]
    ELSE cyc

Finish(cyc) ==
    IF AllSettled(cyc)
    THEN [cyc EXCEPT !.pc = "done",
                     !.summary = Append(cyc.summary, Summary(cyc)),
                     !.log = Append(cyc.log, LogEv("done", 0, cyc.diagnostics))]
    ELSE cyc

Publication(c, cyc) == [by |-> c, diagnostics |-> cyc.diagnostics]

\* -------------------------------------------------- sendDiagnostics, start
\* A cycle that goes on counting from where the cycle started before it stood,
\* as with one TotalCount object kept for the whole process.
NewCycle_SharedCount(ecosystem, uri, contents) ==
    [uri |-> uri, ecosystem |-> ecosystem, contents |-> contents,
     pc |-> "collect", keys |-> <<>>, hits |-> <<>>,
     batches |-> <<>>, diagnostics |-> <<>>,
     totalCount |-> IF cycles = << >> THEN TotalCount ELSE cycles[Len(cycles)].totalCount,
     errors |-> 0, summary |-> <<>>, prior |-> published[uri].diagnostics,
     log |-> <<LogEv("publish", -1, <<>>), LogEv("progress", 0, <<>>)>>]

\* The synchronous head of sendDiagnostics, up to `await collector.collect`.
\* `prior` remembers what the editor showed for the URI when the cycle started.
NewCycle(ecosystem, uri, contents) ==
    [uri |-> uri, ecosystem |-> ecosystem, contents |-> contents,
     pc |-> "collect", keys |-> <<>>, hits |-> <<>>,
     batches |-> <<>>, diagnostics |-> <<>>, totalCount |-> TotalCount,
     errors |-> 0, summary |-> <<>>, prior |-> published[uri].diagnostics,
     log |-> <<LogEv("publish", -1, <<>>), LogEv("progress", 0, <<>>)>>]

\* AnalysisLSPServer.handle_file_event
handle_file_event(uri, contents) ==
    LET h == RunHandler(FileName(uri))
    IN  /\ file_data' = [x \in DOMAIN file_data \cup {uri} |->
                            IF x = uri THEN contents ELSE file_data[x]]
        /\ IF h = 0
           THEN UNCHANGED << cycles, published >>
           ELSE /\ cycles' = Append(cycles, NewCycle(Handlers[h].ecosystem, uri, contents))
                /\ published' = [published EXCEPT ![uri] =
                                    [by |-> Len(cycles) + 1, diagnostics |-> <<>>]]

\* clearTimeout(checkDelay)
clearTimeout(handle) == {t \in timers : t.id # handle}

\* setTimeout(callback, 500); the handle of the new timer is nEvents + 1.
setTimeout(live, uri) ==
    live \cup {[id |-> nEvents + 1, uri |-> uri, remaining |-> DebounceMs]}

NoBurst == [active |-> FALSE, uri |-> "", text |-> "", elapsed |-> 0]

\* --------------------------------------------------------- client events
\* connection.onDidOpenTextDocument
DidOpen(uri, text) ==
    /\ nEvents < MaxEvents
    /\ handle_file_event(uri, text)
    /\ nEvents' = nEvents + 1
    /\ step' = Handled("open", uri, text, FALSE)
    /\ burst' = NoBurst
    /\ closed' = closed \ {uri}
    /\ UNCHANGED << timers, checkDelay, cache, sliceVars, callVars, actionVars >>

\* An edit handler that arms a new timer without clearing the pending one.
DidChange_NoClear(uri, text) ==
    /\ nEvents < MaxEvents
    /\ file_data' = [x \in DOMAIN file_data \cup {uri} |->
                        IF x = uri THEN text ELSE file_data[x]]
    /\ timers' = setTimeout(timers, uri)
    /\ checkDelay' = nEvents + 1
    /\ nEvents' = nEvents + 1
    /\ step' = Handled("change", uri, text, FALSE)
    /\ burst' = [active |-> TRUE, uri |-> uri, text |-> text, elapsed |-> 0]
    /\ closed' = closed \ {uri}
    /\ UNCHANGED << cycles, cache, published, sliceVars, callVars, actionVars >>

\* An edit handler with one timer per document: it clears the pending timer
\* only when that timer was armed for the same URI.
DidChange_PerUri(uri, text) ==
    /\ nEvents < MaxEvents
    /\ file_data' = [x \in DOMAIN file_data \cup {uri} |->
                        IF x = uri THEN text ELSE file_data[x]]
    /\ timers' = setTimeout({t \in timers : t.uri # uri}, uri)
    /\ checkDelay' = nEvents + 1
    /\ nEvents' = nEvents + 1
    /\ step' = Handled("change", uri, text, \E t \in timers : t.uri = uri)
    /\ burst' = [active |-> TRUE, uri |-> uri, text |-> text, elapsed |-> 0]
    /\ closed' = closed \ {uri}
    /\ UNCHANGED << cycles, cache, published, sliceVars, callVars, actionVars >>

\* connection.onDidChangeTextDocument
DidChange(uri, text) ==
    /\ nEvents < MaxEvents
    /\ file_data' = [x \in DOMAIN file_data \cup {uri} |->
                        IF x = uri THEN text ELSE file_data[x]]
    /\ timers' = setTimeout(clearTimeout(checkDelay), uri)
    /\ checkDelay' = nEvents + 1
    /\ nEvents' = nEvents + 1
    /\ step' = Handled("change", uri, text, clearTimeout(checkDelay) # timers)
    /\ burst' = [active |-> TRUE, uri |-> uri, text |-> text, elapsed |-> 0]
    /\ closed' = closed \ {uri}
    /\ UNCHANGED << cycles, cache, published, sliceVars, callVars, actionVars >>

\* A save handler that debounces like an edit instead of analysing at once.
DidSave_Debounced(uri) ==
    /\ nEvents < MaxEvents
    /\ uri \in DOMAIN file_data
    /\ timers' = setTimeout(clearTimeout(checkDelay), uri)
    /\ checkDelay' = nEvents + 1
    /\ nEvents' = nEvents + 1
    /\ step' = Handled("save", uri, file_data[uri], clearTimeout(checkDelay) # timers)
    /\ burst' = NoBurst
    /\ closed' = closed \ {uri}
    /\ UNCHANGED << file_data, cycles, cache, published, sliceVars, callVars, actionVars >>

\* connection.onDidSaveTextDocument; a client saves a document it has sent.
DidSave(uri) ==
    /\ nEvents < MaxEvents
    /\ uri \in DOMAIN file_data
    /\ timers' = clearTimeout(checkDelay)
    /\ handle_file_event(uri, file_data[uri])
    /\ nEvents' = nEvents + 1
    /\ step' = Handled("save", uri, file_data[uri], clearTimeout(checkDelay) # timers)
    /\ burst' = NoBurst
    /\ closed' = closed \ {uri}
    /\ UNCHANGED << checkDelay, cache, sliceVars, callVars, actionVars >>

\* A close handler that leaves the pending timer alone.
DidClose_NoClear(uri) ==
    /\ nEvents < MaxEvents
    /\ uri \in DOMAIN file_data
    /\ nEvents' = nEvents + 1
    /\ step' = Handled("close", uri, "", FALSE)
    /\ burst' = NoBurst
    /\ closed' = closed \cup {uri}
    /\ UNCHANGED << file_data, timers, checkDelay, cycles, cache, published, sliceVars, callVars, actionVars >>

\* connection.onDidCloseTextDocument; a client closes a document it has sent.
DidClose(uri) ==
    /\ nEvents < MaxEvents
    /\ uri \in DOMAIN file_data
    /\ timers' = clearTimeout(checkDelay)
    /\ nEvents' = nEvents + 1
    /\ step' = Handled("close", uri, "", clearTimeout(checkDelay) # timers)
    /\ burst' = NoBurst
    /\ closed' = closed \cup {uri}
    /\ UNCHANGED << file_data, checkDelay, cycles, cache, published, sliceVars, callVars, actionVars >>

\* ------------------------------------------------------------------ timer
\* Time passes while a timer is counting down.
Tick ==
    /\ \E t \in timers : t.remaining > 0
    /\ timers' = {[t EXCEPT !.remaining = IF t.remaining > TickMs
                                          THEN t.remaining - TickMs ELSE 0] : t \in timers}
    /\ burst' = IF burst.active
                THEN [burst EXCEPT !.elapsed = Min(DebounceMs, burst.elapsed + TickMs)]
                ELSE burst
    /\ step' = Continuation
    /\ UNCHANGED << file_data, checkDelay, cycles, cache, published,
                    nEvents, closed, sliceVars, callVars, actionVars >>

\* The callback given to setTimeout in onDidChangeTextDocument.
TimerFire(t) ==
    /\ t \in timers
    /\ t.remaining = 0
    /\ timers' = timers \ {t}
    /\ handle_file_event(t.uri, file_data[t.uri])
    /\ step' = Handled("timer", t.uri, file_data[t.uri], FALSE)
    /\ burst' = NoBurst
    /\ UNCHANGED << checkDelay, cache, nEvents, closed, sliceVars, callVars, actionVars >>

\* ------------------------------------------- sendDiagnostics, continuation
\* A catch block that logs the error and returns without notifying.
CollectReject_Silent(c) ==
    /\ c \in DOMAIN cycles
    /\ cycles[c].pc = "collect"
    /\ CollectRejects(cycles[c].contents)
    /\ cycles' = [cycles EXCEPT ![c] = [@ EXCEPT !.pc = "aborted"]]
    /\ step' = Continuation
    /\ UNCHANGED << file_data, timers, checkDelay, cache, published,
                    nEvents, burst, closed, sliceVars, callVars, actionVars >>

\* The collector rejects: the catch block reports the error and returns.
CollectReject(c) ==
    /\ c \in DOMAIN cycles
    /\ cycles[c].pc = "collect"
    /\ CollectRejects(cycles[c].contents)
    /\ cycles' = [cycles EXCEPT ![c] =
                    [@ EXCEPT !.pc = "aborted",
                              !.errors = @ + 1,
                              !.log = Append(@, LogEv("caError", 0, <<>>))]]
    /\ step' = Continuation
    /\ UNCHANGED << file_data, timers, checkDelay, cache, published,
                    nEvents, burst, closed, sliceVars, callVars, actionVars >>

\* allRequests: fetchVulnerabilities is called once per request, in order.
IssueRequests(cyc, requests) ==
    [cyc EXCEPT !.pc = "await",
                !.batches = [i \in DOMAIN requests |->
                                [request |-> requests[i], state |-> "inflight"]],
                !.log = @ \o [i \in DOMAIN requests |-> LogEv("request", i, <<>>)]]

\* The requests sent first, the cached values served after them.
RequestThenServe(cyc, cachedValues, requests) ==
    runPipeline(IssueRequests(cyc, requests), cachedValues, 0)

\* pipeline(cachedValues) runs first; the requests are built and sent after it.
ServeThenRequest(cyc, cachedValues, requests) ==
    IssueRequests(runPipeline(cyc, cachedValues, 0), requests)

\* The collector resolves: the version filter, the cache lookup, the pipeline
\* run on the hits, and one fetch issued per slice of the misses.
CollectResolve(c) ==
    /\ c \in DOMAIN cycles
    /\ cycles[c].pc = "collect"
    /\ ~CollectRejects(cycles[c].contents)
    /\ \E cyc \in {cycles[c]} :
       \E cachedItems \in {CacheGet(cache[cyc.ecosystem],
                                    validPackagesOf[cyc.ecosystem][cyc.contents])} :
       \E cachedValues \in {SeqMap(LAMBDA i : i.V[1],
                                    SelectSeq(cachedItems, LAMBDA i : i.V # <<>>))} :
       \E missedItems \in {SeqMap(LAMBDA i : i.K,
                                   SelectSeq(cachedItems, LAMBDA i : i.V = <<>>))} :
       \E requestPayload \in {SeqMap(LAMBDA d : [package |-> d.name, version |-> d.version],
                                      missedItems)} :
       \E requests \in {slicePayload(requestPayload, batchSize, cyc.ecosystem)} :
       \E looked \in {[cyc EXCEPT !.keys = validPackagesOf[cyc.ecosystem][cyc.contents],
                                   !.hits = cachedValues,
                                   !.log = Append(@, LogEv("cacheGet", 0, <<>>))]} :
       \E issued \in {ServeThenRequest(looked, cachedValues, requests)} :
       \E own \in {PipelineDiagnostics(validPackagesOf[cyc.ecosystem][cyc.contents], cachedValues)} :
           /\ codeActionsMap' = Registered(codeActionsMap, c, own)
           /\ cycles' = [cycles EXCEPT ![c] = Finish(issued)]
           /\ published' = [published EXCEPT ![cyc.uri] = Publication(c, issued)]
    /\ step' = Continuation
    /\ UNCHANGED << file_data, timers, checkDelay, cache, nEvents, burst, closed, sliceVars, callVars, codeActions >>

\* fetchVulnerabilities resolves with the body of a 2xx response, and
\* cacheAndRunPipeline caches it and runs the pipeline on it.
BatchOk(c, b) ==
    /\ c \in DOMAIN cycles
    /\ cycles[c].pc = "await"
    /\ b \in DOMAIN cycles[c].batches
    /\ cycles[c].batches[b].state = "inflight"
    /\ \E cyc \in {cycles[c]} :
       \E response \in {Respond(cyc.batches[b].request)} :
       \E settled \in {[cyc EXCEPT !.batches[b].state = "ok"]} :
       \E ran \in {runPipeline(settled, response, b)} :
       \E own \in {PipelineDiagnostics(validPackagesOf[cyc.ecosystem][cyc.contents], response)} :
           /\ codeActionsMap' = Registered(codeActionsMap, c, own)
           /\ cache' = [cache EXCEPT ![cyc.ecosystem] = CacheAdd(@, response)]
           /\ cycles' = [cycles EXCEPT ![c] = Finish(ran)]
           /\ published' = [published EXCEPT ![cyc.uri] = Publication(c, ran)]
    /\ step' = Continuation
    /\ UNCHANGED << file_data, timers, checkDelay, nEvents, burst, closed, sliceVars, callVars, codeActions >>

\* A failed request whose members are processed all the same.
BatchFail_Processed(c, b, how) ==
    /\ c \in DOMAIN cycles
    /\ cycles[c].pc = "await"
    /\ b \in DOMAIN cycles[c].batches
    /\ cycles[c].batches[b].state = "inflight"
    /\ how \in {"status", "threw"}
    /\ \E cyc \in {cycles[c]} :
       \E response \in {Respond(cyc.batches[b].request)} :
       \E settled \in {[cyc EXCEPT !.batches[b].state = "failed"]} :
       \E ran \in {runPipeline(settled, response, b)} :
       \E own \in {PipelineDiagnostics(validPackagesOf[cyc.ecosystem][cyc.contents], response)} :
           /\ codeActionsMap' = Registered(codeActionsMap, c, own)
           /\ cycles' = [cycles EXCEPT ![c] = Finish(ran)]
           /\ published' = [published EXCEPT ![cyc.uri] = Publication(c, ran)]
    /\ step' = Continuation
    /\ UNCHANGED << file_data, timers, checkDelay, cache, nEvents, burst, closed, sliceVars, callVars, codeActions >>

\* fetchVulnerabilities resolves with the status of a non-2xx response
\* ("status") or, after fetch threw, with undefined ("threw"): neither is an
\* array, cacheAndRunPipeline throws on it and the request's promise rejects.
FailureKinds == {"status", "threw"}

BatchFail(c, b, how) ==
    /\ c \in DOMAIN cycles
    /\ cycles[c].pc = "await"
    /\ b \in DOMAIN cycles[c].batches
    /\ cycles[c].batches[b].state = "inflight"
    /\ how \in FailureKinds
    /\ cycles' = [cycles EXCEPT ![c] = Finish([@ EXCEPT !.batches[b].state = "failed"])]
    /\ step' = Continuation
    /\ UNCHANGED << file_data, timers, checkDelay, cache, published,
                    nEvents, burst, closed, sliceVars, callVars, actionVars >>

\* ------------------------------------------------------- a throwing engine
\* runPipeline has no try block: when the engines throw on record k of a
\* response, the records before it have been processed, forEach is left, and
\* the diagnostics are not published by this run.
Thrown(cyc, response, batch, k) ==
    [cyc EXCEPT !.diagnostics =
                    @ \o PipelineDiagnostics(validPackagesOf[cyc.ecosystem][cyc.contents],
                                             SubSeq(response, 1, k - 1)),
                !.totalCount = PipelineCounts(@, SubSeq(response, 1, k - 1)),
                !.log = Append(@, LogEv("throw", batch, << >>))]

\* The engines throw on record k of a batch's response: cache.add has run,
\* the exception rejects the request's promise, which counts as settled.
BatchThrow(c, b, k) ==
    /\ c \in DOMAIN cycles
    /\ cycles[c].pc = "await"
    /\ b \in DOMAIN cycles[c].batches
    /\ cycles[c].batches[b].state = "inflight"
    /\ \E cyc \in {cycles[c]} :
       \E response \in {Respond(cyc.batches[b].request)} :
       \E settled \in {[cyc EXCEPT !.batches[b].state = "failed"]} :
           /\ k \in DOMAIN response
           /\ \E own \in {PipelineDiagnostics(validPackagesOf[cyc.ecosystem][cyc.contents], SubSeq(response, 1, k - 1))} :
                 codeActionsMap' = Registered(codeActionsMap, c, own)
           /\ cache' = [cache EXCEPT ![cyc.ecosystem] = CacheAdd(@, response)]
           /\ cycles' = [cycles EXCEPT ![c] = Finish(Thrown(settled, response, b, k))]
    /\ step' = Continuation
    /\ UNCHANGED << file_data, timers, checkDelay, published, nEvents, burst, closed,
                    sliceVars, callVars, codeActions >>

\* The engines throw on record k of the cache hits: the exception leaves
\* sendDiagnostics at pipeline(cachedValues), before the requests are built.
HitsThrow(c, k) ==
    /\ c \in DOMAIN cycles
    /\ cycles[c].pc = "collect"
    /\ ~CollectRejects(cycles[c].contents)
    /\ \E cyc \in {cycles[c]} :
       \E cachedItems \in {CacheGet(cache[cyc.ecosystem],
                                    validPackagesOf[cyc.ecosystem][cyc.contents])} :
       \E cachedValues \in {SeqMap(LAMBDA i : i.V[1],
                                    SelectSeq(cachedItems, LAMBDA i : i.V # <<>>))} :
       \E looked \in {[cyc EXCEPT !.keys = validPackagesOf[cyc.ecosystem][cyc.contents],
                                   !.hits = cachedValues,
                                   !.pc = "crashed",
                                   !.log = Append(@, LogEv("cacheGet", 0, <<>>))]} :
           /\ k \in DOMAIN cachedValues
           /\ \E own \in {PipelineDiagnostics(validPackagesOf[cyc.ecosystem][cyc.contents], SubSeq(cachedValues, 1, k - 1))} :
                 codeActionsMap' = Registered(codeActionsMap, c, own)
           /\ cycles' = [cycles EXCEPT ![c] = Thrown(looked, cachedValues, 0, k)]
    /\ step' = Continuation
    /\ UNCHANGED << file_data, timers, checkDelay, cache, published, nEvents, burst, closed,
                    sliceVars, callVars, codeActions >>

\* ------------------------------------------------------- specifications
NoSlice == [payload |-> <<>>, size |-> 1, ecosystem |-> "npm"]
NoCall == [of |-> "none"]
NoCodeActions == [uri |-> "", actions |-> << >>]

Init ==
    /\ file_data = << >>
    /\ timers = {}
    /\ checkDelay = 0
    /\ cycles = << >>
    /\ cache = [e \in Ecosystems |-> {}]
    /\ published = [u \in URIs |-> [by |-> 0, diagnostics |-> << >>]]
    /\ nEvents = 0
    /\ step = Continuation
    /\ burst = NoBurst
    /\ closed = {}
    /\ sliceIn = NoSlice
    /\ sliceOut = << >>
    /\ callIn = NoCall
    /\ callOut = << >>
    /\ codeActionsMap = << >>
    /\ codeActions = NoCodeActions

Next ==
    \/ \E u \in URIs : \E t \in TextsFor(u) : DidOpen(u, t)
    \/ \E u \in URIs : \E t \in TextsFor(u) : DidChange(u, t)
    \/ \E u \in URIs : DidSave(u)
    \/ \E u \in URIs : DidClose(u)
    \/ Tick
    \/ \E t \in timers : TimerFire(t)
    \/ \E c \in DOMAIN cycles : CollectReject(c)
    \/ \E c \in DOMAIN cycles : CollectResolve(c)
    \/ \E c \in DOMAIN cycles : \E b \in DOMAIN cycles[c].batches : BatchOk(c, b)
    \/ \E c \in DOMAIN cycles : \E b \in DOMAIN cycles[c].batches :
          \E how \in FailureKinds : BatchFail(c, b, how)

Spec == Init /\ [][Next]_vars

\* The collector settles and every issued fetch settles, one way or the other.
MaxBatches == CeilDiv(Len(Declarations("big")), batchSize)
Settle(c, b) == BatchOk(c, b) \/ \E how \in FailureKinds : BatchFail(c, b, how)
Fairness ==
    /\ \A c \in 1..MaxEvents : WF_vars(CollectResolve(c))
    /\ \A c \in 1..MaxEvents : \A b \in 1..MaxBatches : WF_vars(Settle(c, b))

SpecLive == Spec /\ Fairness

\* Spec takes the engines never to throw.  SpecThrow lets them throw on any
\* record, of a batch's response or of the cache hits.
NextThrow ==
    \/ Next
    \/ \E c \in DOMAIN cycles : \E b \in DOMAIN cycles[c].batches :
          \E k \in 1..batchSize : BatchThrow(c, b, k)
    \/ \E c \in DOMAIN cycles : \E k \in 1..Len(Declarations(cycles[c].contents)) : HitsThrow(c, k)

SpecThrow == Init /\ [][NextThrow]_vars

\* ------------------------------------------------------------ onCodeAction
AnalyticsSource == "Dependency Analytics"
fullStackReportAction == [kind |-> "fullstack", package |-> 0, by |-> 0]

\* connection.onCodeAction: for every diagnostic of the request's context, the
\* quick fix codeActionsMap holds at the diagnostic's start, if it holds one;
\* then the full stack report, when the configuration provides it and one of
\* the diagnostics is of this server.
onCodeAction(context, provide_fullstack_action) ==
    SeqMap(LAMBDA d : codeActionsMap[d.pos],
           SelectSeq(context, LAMBDA d : d.pos \in DOMAIN codeActionsMap))
      \o (IF provide_fullstack_action /\ \E i \in DOMAIN context : context[i].source = AnalyticsSource
          THEN << fullStackReportAction >> ELSE << >>)

\* What an editor can send as context.diagnostics for a document: the
\* diagnostics this server published for it, or a diagnostic of another tool
\* on any line of the document.
Lines == 1..Len(Declarations("big"))
Shown(uri) ==
    SeqMap(LAMBDA d : [pos |-> d.pos, source |-> AnalyticsSource], published[uri].diagnostics)
Contexts(uri) ==
    {Shown(uri)}
      \cup {<< [pos |-> l, source |-> "other"] >> : l \in Lines}

\* The editor asks for the code actions of a document it has sent.
OnCodeAction(uri, context, provide_fullstack_action) ==
    /\ uri \in DOMAIN file_data
    /\ codeActions' = [uri |-> uri, actions |-> onCodeAction(context, provide_fullstack_action)]
    /\ step' = Handled("codeAction", uri, "", FALSE)
    /\ UNCHANGED << file_data, timers, checkDelay, cycles, cache, published,
                    nEvents, burst, closed, sliceVars, callVars, codeActionsMap >>

\* Spec leaves the code-action requests out: they change nothing of what the
\* server holds.  SpecAction lets the editor make them at any time.
NextAction ==
    \/ Next
    \/ \E u \in URIs : \E context \in Contexts(u) : \E provide \in BOOLEAN :
          OnCodeAction(u, context, provide)

SpecAction == Init /\ [][NextAction]_vars

\* ------------------------------------------------- slicePayload on its own
\* The payloads drawn: n requested items, told apart by their package number.
PayloadOf(n) == [i \in 1..n |-> [package |-> i, version |-> "1.0"]]

InitSlice ==
    /\ file_data = << >>
    /\ timers = {}
    /\ checkDelay = 0
    /\ cycles = << >>
    /\ cache = [e \in Ecosystems |-> {}]
    /\ published = [u \in URIs |-> [by |-> 0, diagnostics |-> << >>]]
    /\ nEvents = 0
    /\ step = Continuation
    /\ burst = NoBurst
    /\ closed = {}
    /\ \E n \in 0..MaxPayload : \E size \in 1..MaxBatch : \E e \in Ecosystems :
          sliceIn = [payload |-> PayloadOf(n), size |-> size, ecosystem |-> e]
    /\ sliceOut = << >>
    /\ callIn = NoCall
    /\ callOut = << >>
    /\ codeActionsMap = << >>
    /\ codeActions = NoCodeActions

\* sliceOut holds the result of the call, once it was made.
SliceApply ==
    /\ sliceOut = << >>
    /\ sliceOut' = << slicePayload(sliceIn.payload, sliceIn.size, sliceIn.ecosystem) >>
    /\ UNCHANGED << file_data, timers, checkDelay, cycles, cache, published,
                    nEvents, step, burst, closed, sliceIn, callVars, actionVars >>

NextSlice == SliceApply

SpecSlice == InitSlice /\ [][NextSlice]_vars

\* ----------------------------------------------------- getCAmsg on its own
Idle ==
    /\ file_data = << >>
    /\ timers = {}
    /\ checkDelay = 0
    /\ cycles = << >>
    /\ cache = [e \in Ecosystems |-> {}]
    /\ published = [u \in URIs |-> [by |-> 0, diagnostics |-> << >>]]
    /\ nEvents = 0
    /\ step = Continuation
    /\ burst = NoBurst
    /\ closed = {}
    /\ sliceIn = NoSlice
    /\ sliceOut = << >>
    /\ codeActionsMap = << >>
    /\ codeActions = NoCodeActions

UnchangedServer ==
    UNCHANGED << file_data, timers, checkDelay, cycles, cache, published,
                 nEvents, step, burst, closed, sliceVars, actionVars >>

\* deps and diagnostics of the lengths drawn, and the counts drawn.
InitMsg ==
    /\ Idle
    /\ \E n \in 0..MaxCount : \E d \in 0..MaxCount :
       \E v \in 0..MaxCount : \E a \in 0..MaxCount : \E e \in 0..MaxCount :
          callIn = [of |-> "getCAmsg",
                    deps |-> [i \in 1..n |-> i],
                    diagnostics |-> [i \in 1..d |-> i],
                    totalCount |-> [vulnerabilityCount |-> v, advisoryCount |-> a,
                                    exploitCount |-> e]]
    /\ callOut = << >>

MsgApply ==
    /\ callIn.of = "getCAmsg"
    /\ callOut = << >>
    /\ callOut' = << getCAmsg(callIn.deps, callIn.diagnostics, callIn.totalCount) >>
    /\ UNCHANGED callIn
    /\ UnchangedServer

NextMsg == MsgApply

SpecMsg == InitMsg /\ [][NextMsg]_vars

\* ------------------------------------------------------------------ C11
\* The words w occur in msg, one after the other.
Occurs(w, msg) ==
    \E i \in 0..(Len(msg) - Len(w)) : SubSeq(msg, i + 1, i + Len(w)) = w
Ends(w, msg) ==
    Len(msg) >= Len(w) /\ SubSeq(msg, Len(msg) - Len(w) + 1, Len(msg)) = w

\* C11: the message of getCAmsg starts with 'Scanned <n> dependency' when
\* n = 1 and 'Scanned <n> dependencies' otherwise.  Without diagnostics it
\* ends with 'No potential security vulnerabilities found'.  With
\* diagnostics it has the known-vulnerability clause exactly when
\* vulnerabilityCount > 0, the advisory clause exactly when advisoryCount > 0,
\* the two joined by 'and' exactly when both are there, the 'with <k>
\* Exploitable' clause exactly when exploitCount > 0, and the quick-fixes
\* clause exactly when vulnerabilityCount + advisoryCount > 0.
C11_SummaryMessage ==
    callOut # << >> =>
        LET msg == callOut[1]
            n == Len(callIn.deps)
            v == callIn.totalCount.vulnerabilityCount
            a == callIn.totalCount.advisoryCount
            e == callIn.totalCount.exploitCount
            known == << ToString(v), "Known", "Security" >>
            advisory(word) == << ToString(a), "Security", word >>
            hasAdvisory == Occurs(advisory("Advisory"), msg) \/ Occurs(advisory("Advisories"), msg)
        IN  /\ SubSeq(msg, 1, 3) =
                  << "Scanned", ToString(n),
                     IF n = 1 THEN "dependency," ELSE "dependencies," >>
            /\ Len(callIn.diagnostics) = 0 => Ends(NoVulnMsg, msg)
            /\ Len(callIn.diagnostics) > 0 =>
                  /\ Occurs(known, msg) <=> v > 0
                  /\ hasAdvisory <=> a > 0
                  /\ Occurs(<< "and" >>, msg) <=> (v > 0 /\ a > 0)
                  /\ (v > 0 /\ a > 0) =>
                        \E word \in {"Vulnerability", "Vulnerabilities"} :
                            Occurs(known \o << word, "and" >> \o << ToString(a), "Security" >>, msg)
                  /\ Occurs(<< "with", ToString(e), "Exploitable" >>, msg) <=> e > 0
                  /\ Occurs(QuickFixMsg, msg) <=> v + a > 0

\* Counts 1, 1, 1 with a diagnostic: both clauses joined by 'and', then
\* 'with 1 Exploitable Vulnerability' and the quick fixes.
C11_Witness ==
    /\ callOut # << >>
    /\ callIn.of = "getCAmsg"
    /\ Len(callIn.deps) = 2
    /\ callOut[1] = << "Scanned", "2", "dependencies,", "flagged",
                       "1", "Known", "Security", "Vulnerability", "and",
                       "1", "Security", "Advisory",
                       "with", "1", "Exploitable", "Vulnerability",
                       "along", "with", "quick", "fixes" >>

\* ------------------------------------------- fetchVulnerabilities on its own
\* Every configuration, and every request slicePayload cuts from a payload.
InitFetch ==
    /\ Idle
    /\ \E token \in {"", "token"} : \E source \in {"", "vscode"} : \E uuid \in {"", "uuid"} :
       \E n \in 1..MaxPayload :
       \E b \in 1..CeilDiv(MaxPayload, batchSize) :
          /\ b \in DOMAIN slicePayload(PayloadOf(n), batchSize, "npm")
          /\ callIn = [of |-> "fetchVulnerabilities",
                       config |-> [server_url |-> "https://server", three_scale_user_token |-> token,
                                   source |-> source, uuid |-> uuid],
                       reqData |-> slicePayload(PayloadOf(n), batchSize, "npm")[b]]
    /\ callOut = << >>

FetchApply ==
    /\ callIn.of = "fetchVulnerabilities"
    /\ callOut = << >>
    /\ callOut' = << fetchRequest(callIn.config, callIn.reqData, "hash", "id") >>
    /\ UNCHANGED callIn
    /\ UnchangedServer

NextFetch == FetchApply

SpecFetch == InitFetch /\ [][NextFetch]_vars

\* ------------------------------------------------------------------ C15
\* The separators of a url, in order, and the names of its parameters.
Separators(url) == SelectSeq(url, LAMBDA x : x \in {"?", "&"})
Parameters(url) == {url[i + 1] : i \in {j \in 1..(Len(url) - 1) : url[j] \in {"?", "&"}}}

\* C15: fetchVulnerabilities sends one POST to <server>/component-analyses
\* whose query string is well formed, the first parameter introduced by '?'
\* and every further one by '&'; it carries utm_content always, user_key
\* exactly when a token is configured and utm_source exactly when a source is
\* configured; the body has at most ten package_versions.
C15_RequestShape ==
    callOut # << >> =>
        LET req == callOut[1]
            seps == Separators(req.url)
        IN  /\ req.method = "post"
            /\ req.url[1] = callIn.config.server_url
            /\ req.url[2] \in {"/component-analyses", "/component-analyses/"}
            /\ seps # << >>
            /\ seps[1] = "?"
            /\ \A i \in 2..Len(seps) : seps[i] = "&"
            /\ "utm_content" \in Parameters(req.url)
            /\ "user_key" \in Parameters(req.url) <=> callIn.config.three_scale_user_token # ""
            /\ "utm_source" \in Parameters(req.url) <=> callIn.config.source # ""
            /\ Len(req.body.package_versions) <= 10

\* ------------------------------------------------------------------ C10
RECURSIVE Flatten(_)
Flatten(batches) ==
    IF batches = << >> THEN << >>
    ELSE Head(batches).package_versions \o Flatten(Tail(batches))

\* C10: slicePayload returns ceil(n / b) batches, each tagged with the given
\* ecosystem, each non-empty with at most b items and all but the last with
\* exactly b, and the batches' package_versions concatenated in batch order
\* are the payload in its original order; an empty payload gives no batch.
C10_SliceShape ==
    sliceOut # << >> =>
        LET out == sliceOut[1]
            n == Len(sliceIn.payload)
            b == sliceIn.size
        IN  /\ Len(out) = CeilDiv(n, b)
            /\ \A k \in DOMAIN out :
                  /\ out[k].ecosystem = sliceIn.ecosystem
                  /\ Len(out[k].package_versions) >= 1
                  /\ Len(out[k].package_versions) <= b
                  /\ k < Len(out) => Len(out[k].package_versions) = b
            /\ Flatten(out) = sliceIn.payload
            /\ n = 0 => out = << >>

\* 23 items sliced by 10 came out as batches of 10, 10 and 3.
C10_Witness ==
    /\ sliceOut # << >>
    /\ Len(sliceIn.payload) = 23
    /\ sliceIn.size = 10
    /\ [k \in DOMAIN sliceOut[1] |-> Len(sliceOut[1][k].package_versions)] = <<10, 10, 3>>

\* ------------------------------------------------------------ claims, aids
LogIdx(cyc, ev, batch) ==
    {i \in DOMAIN cyc.log : cyc.log[i].ev = ev /\ cyc.log[i].batch = batch}
Requests(cyc) == {i \in DOMAIN cyc.log : cyc.log[i].ev = "request"}
BatchPublishes(cyc) == {i \in DOMAIN cyc.log : cyc.log[i].ev = "publish" /\ cyc.log[i].batch > 0}
Publishes(cyc) == {i \in DOMAIN cyc.log : cyc.log[i].ev = "publish"}

Parsed(cyc) == cyc.pc \in {"await", "done"}
Members(cyc, b) ==
    {cyc.batches[b].request.package_versions[i].package :
        i \in DOMAIN cyc.batches[b].request.package_versions}
HitPackages(cyc) == {cyc.hits[i].package : i \in DOMAIN cyc.hits}
BatchesIn(cyc, state) == {b \in DOMAIN cyc.batches : cyc.batches[b].state = state}
Flagged(packages) ==
    {p \in packages : Advisory(p).vulnerabilityCount + Advisory(p).advisoryCount > 0}
PackagesOf(diagnostics) == {diagnostics[i].package : i \in DOMAIN diagnostics}
PackagesIn(diagnostics) == [i \in DOMAIN diagnostics |-> diagnostics[i].package]

\* The packages a cycle has processed: its hits and the members of the
\* requests that succeeded.
Contributors(cyc) ==
    HitPackages(cyc) \cup UNION {Members(cyc, b) : b \in BatchesIn(cyc, "ok")}

\* The packages of the records a cycle has processed, one entry per record:
\* a package the manifest declares twice is looked up or requested twice.
RECURSIVE OkItems(_, _)
OkItems(cyc, b) ==
    IF b > Len(cyc.batches) THEN << >>
    ELSE (IF cyc.batches[b].state = "ok"
          THEN [i \in DOMAIN cyc.batches[b].request.package_versions |->
                    cyc.batches[b].request.package_versions[i].package]
          ELSE << >>)
         \o OkItems(cyc, b + 1)
ProcessedItems(cyc) == [i \in DOMAIN cyc.hits |-> cyc.hits[i].package] \o OkItems(cyc, 1)

Occurrences(items, p) == Cardinality({i \in DOMAIN items : items[i] = p})

RECURSIVE SumOver(_, _)
SumOver(items, field) ==
    IF items = << >> THEN 0
    ELSE Advisory(Head(items))[field] + SumOver(Tail(items), field)

\* ------------------------------------------------------------------- C1
\* C1: in a cycle whose manifest parsed, the pipeline has run on the cache
\* hits and published their diagnostics before the first batch request is
\* issued, hence before any batch result is processed or published; every
\* batch publication follows the issue of all the requests.
C1_HitsBeforeRequests ==
    \A c \in DOMAIN cycles :
        Parsed(cycles[c]) =>
            LET cyc == cycles[c]
            IN  /\ Cardinality(LogIdx(cyc, "publish", 0)) = 1
                /\ \A h \in LogIdx(cyc, "publish", 0) :
                      /\ PackagesOf(cyc.log[h].diagnostics) = Flagged(HitPackages(cyc))
                      /\ \A r \in Requests(cyc) : h < r
                      /\ \A q \in BatchPublishes(cyc) : h < q
                /\ \A q \in BatchPublishes(cyc) : \A r \in Requests(cyc) : r < q

\* A finished cycle with a flagged cache hit and two batches, the second of
\* which was published before the first.
C1_Witness ==
    \E c \in DOMAIN cycles :
        LET cyc == cycles[c]
        IN  /\ cyc.pc = "done"
            /\ Flagged(HitPackages(cyc)) # {}
            /\ Len(cyc.batches) = 2
            /\ \E q1 \in LogIdx(cyc, "publish", 1) : \E q2 \in LogIdx(cyc, "publish", 2) : q2 < q1

\* ------------------------------------------------------------------- C2
\* C2: a batch whose remote call failed was requested exactly once, has no
\* publication of its own, and adds no diagnostic and no count for its
\* members; the other batches go on: the cycle's diagnostics and counts are
\* exactly those of the records of its cache hits and successful batches,
\* the last set it published is that set, and once every batch has settled
\* the cycle has sent its summary.
C2_FailedBatchIsolated ==
    \A c \in DOMAIN cycles :
        Parsed(cycles[c]) =>
            LET cyc == cycles[c]
                lastPublish == CHOOSE i \in Publishes(cyc) : \A j \in Publishes(cyc) : j <= i
                items == ProcessedItems(cyc)
                contributors == {items[i] : i \in DOMAIN items}
            IN  /\ \A b \in DOMAIN cyc.batches : Cardinality(LogIdx(cyc, "request", b)) = 1
                /\ \A b \in BatchesIn(cyc, "failed") :
                      /\ LogIdx(cyc, "publish", b) = {}
                      /\ \A p \in Members(cyc, b) \ contributors :
                            Occurrences(PackagesIn(cyc.diagnostics), p) = 0
                /\ contributors = Contributors(cyc)
                /\ \A p \in contributors :
                      Occurrences(PackagesIn(cyc.diagnostics), p) =
                          IF p \in Flagged({p}) THEN Occurrences(items, p) ELSE 0
                /\ Len(cyc.diagnostics) = Len(SelectSeq(items, LAMBDA p : p \in Flagged({p})))
                /\ cyc.totalCount =
                      [vulnerabilityCount |-> SumOver(items, "vulnerabilityCount"),
                       advisoryCount |-> SumOver(items, "advisoryCount"),
                       exploitCount |-> SumOver(items, "exploitCount")]
                /\ cyc.log[lastPublish].diagnostics = cyc.diagnostics
                /\ AllSettled(cyc) =>
                      /\ cyc.pc = "done"
                      /\ cyc.summary = << Summary(cyc) >>

\* A finished cycle with a flagged hit and two batches, one failed and one
\* successful, each holding a flagged package.
C2_Witness ==
    \E c \in DOMAIN cycles :
        LET cyc == cycles[c]
        IN  /\ cyc.pc = "done"
            /\ Flagged(HitPackages(cyc)) # {}
            /\ Len(cyc.batches) = 2
            /\ \E f \in BatchesIn(cyc, "failed") : Flagged(Members(cyc, f)) # {}
            /\ \E k \in BatchesIn(cyc, "ok") : Flagged(Members(cyc, k)) # {}
            /\ Len(cyc.summary) = 1

\* ------------------------------------------------------------------- C3
C3_DoneState ==
    \A c \in DOMAIN cycles :
        LET cyc == cycles[c]
            dones == {i \in DOMAIN cyc.log : cyc.log[i].ev = "done"}
        IN  /\ cyc.pc = "done" =>
                /\ AllSettled(cyc)
                /\ Len(cyc.summary) = 1
                /\ dones = {Len(cyc.log)}
            /\ cyc.pc # "done" => cyc.summary = << >> /\ dones = {}

C3_DoneStep ==
    \A c \in DOMAIN cycles :
        cycles[c].pc = "done" =>
            /\ cycles'[c] = cycles[c]
            /\ published'[cycles[c].uri] # published[cycles[c].uri]
                  => published'[cycles[c].uri].by # c

\* C3: a cycle has sent its done: true summary only when every one of its
\* batches has settled; it sends it once, as the last thing it sends, and
\* publishes nothing afterwards.
C3_SummaryAfterAllSettled == []C3_DoneState /\ [][C3_DoneStep]_vars

\* A cycle that has sent its summary after two batches, one of them failed.
C3_Witness ==
    \E c \in DOMAIN cycles :
        /\ cycles[c].pc = "done"
        /\ Len(cycles[c].batches) = 2
        /\ BatchesIn(cycles[c], "failed") # {}
        /\ BatchesIn(cycles[c], "ok") # {}
        /\ Len(cycles[c].summary) = 1

\* ------------------------------------------------------------------- C4
\* C4: when the collector resolves and every issued remote call settles, a
\* started cycle whose manifest parses eventually sends its done: true
\* summary, whichever batches fail and whatever events and newer cycles
\* occur in the meantime.
C4_EventuallyDone ==
    \A c \in 1..MaxEvents :
        (c \in DOMAIN cycles /\ ~CollectRejects(cycles[c].contents))
            ~> (c \in DOMAIN cycles /\ cycles[c].pc = "done")

\* The first cycle has sent its summary although one of its two batches
\* failed and a newer cycle for the same URI had started before its last
\* publication.
C4_Witness ==
    /\ Len(cycles) = 2
    /\ cycles[1].pc = "done"
    /\ Len(cycles[1].batches) = 2
    /\ BatchesIn(cycles[1], "failed") # {}
    /\ cycles[2].uri = cycles[1].uri
    /\ published[cycles[1].uri].by = 1

\* ------------------------------------------------------------------- C5
NewCycles == Len(cycles') - Len(cycles)

C5_Pending ==
    burst.active =>
        \E t \in timers :
            /\ timers = {t}
            /\ t.id = checkDelay
            /\ t.uri = burst.uri
            /\ t.remaining + burst.elapsed = DebounceMs

C5_Step ==
    /\ step'.kind = "change" => NewCycles = 0 /\ burst'.active /\ step'.text = file_data'[step'.uri]
    /\ burst.active /\ burst'.active => NewCycles = 0
    /\ burst.active /\ ~burst'.active =>
          \/ step'.kind \in {"open", "save", "close"}
          \/ /\ step'.kind = "timer"
             /\ burst.elapsed >= DebounceMs
             /\ NewCycles = 1
             /\ cycles'[Len(cycles')].uri = burst.uri
             /\ cycles'[Len(cycles')].contents = burst.text
             /\ timers' = {}

\* C5: while edits follow one another before the timer fires, and no save,
\* open or close comes in between, exactly one timer is pending, that of the
\* last edit, and no analysis is started; the analysis starts when that
\* timer fires, a full window after the last edit, once, on the text of the
\* last edit, and leaves no timer pending.
C5_TrailingEdgeDebounce == []C5_Pending /\ [][C5_Step]_vars

\* Two edits, the second inside the window of the first, then the timer: one
\* cycle, on the text of the second edit.
C5_Witness ==
    /\ step.kind = "timer"
    /\ nEvents = 2
    /\ checkDelay = 2
    /\ Len(cycles) = 1
    /\ cycles[1].contents = file_data[step.uri]
    /\ timers = {}

\* ------------------------------------------------------------------- C6
C6_Step ==
    step'.kind \in {"save", "open"} =>
        /\ NewCycles = 1
        /\ cycles'[Len(cycles')].uri = step'.uri
        /\ cycles'[Len(cycles')].pc = "collect"
        /\ cycles'[Len(cycles')].contents =
              IF step'.kind = "save" THEN file_data[step'.uri] ELSE step'.text
        /\ burst.active /\ burst.uri = step'.uri /\ step'.kind = "save"
              => cycles'[Len(cycles')].contents = burst.text

\* C6: the handler of a save or an open of a manifest starts a cycle for the
\* URI in the same step, timer pending or not; a save's cycle runs on the
\* text stored for the URI, the text of a still debounced edit included, an
\* open's cycle on the opened text.
C6_SaveAndOpenAnalyseAtOnce == [][C6_Step]_vars

\* A save that cancelled the pending timer of an edit and started the cycle.
C6_Witness ==
    /\ step.kind = "save"
    /\ step.cancelled
    /\ Len(cycles) = 1
    /\ cycles[1].uri = step.uri
    /\ cycles[1].contents = file_data[step.uri]
    /\ cycles[1].pc = "collect"

\* ------------------------------------------------------------------- C7
C7_NoTimer == \A u \in closed : \A t \in timers : t.uri # u

C7_Step ==
    /\ step'.kind = "close" => timers' = {} /\ NewCycles = 0
    /\ \A u \in closed :
          (NewCycles > 0 /\ cycles'[Len(cycles')].uri = u)
              => step'.kind \in {"open", "save"} /\ step'.uri = u

\* C7: a close cancels the pending debounce timer, and from then on no timer
\* is pending for the closed URI and no cycle is started for it, until an
\* edit, a save or an open of that URI arrives.
C7_CloseStopsAnalysis == []C7_NoTimer /\ [][C7_Step]_vars

\* A close that cancelled the pending timer of an edit: no cycle was started.
C7_Witness ==
    /\ step.kind = "close"
    /\ step.cancelled
    /\ step.uri \in closed
    /\ timers = {}
    /\ cycles = << >>

\* ------------------------------------------------------------------- C8
C8_Aborted ==
    \A c \in DOMAIN cycles :
        LET cyc == cycles[c]
        IN  /\ CollectRejects(cyc.contents) => cyc.pc \in {"collect", "aborted"}
            /\ cyc.pc = "aborted" =>
                  /\ cyc.errors = 1
                  /\ cyc.log = << LogEv("publish", -1, << >>), LogEv("progress", 0, << >>),
                                  LogEv("caError", 0, << >>) >>
                  /\ cyc.summary = << >>
                  /\ cyc.batches = << >>
                  /\ cyc.diagnostics = << >>
            /\ cyc.pc # "aborted" => cyc.errors = 0

C8_AbortedStep ==
    \A c \in DOMAIN cycles :
        cycles[c].pc = "aborted" =>
            /\ cycles'[c] = cycles[c]
            /\ published'[cycles[c].uri] # published[cycles[c].uri]
                  => published'[cycles[c].uri].by # c

\* C8 as claimed: an aborted cycle has sent one caError, made no cache lookup
\* and no request, sent no summary, and every set it published is the set
\* the editor showed for the URI before the cycle started.
C8_AbortLeavesDiagnostics ==
    \A c \in DOMAIN cycles :
        cycles[c].pc = "aborted" =>
            /\ cycles[c].errors = 1
            /\ Requests(cycles[c]) = {}
            /\ LogIdx(cycles[c], "cacheGet", 0) = {}
            /\ cycles[c].summary = << >>
            /\ \A i \in Publishes(cycles[c]) :
                  cycles[c].log[i].diagnostics = cycles[c].prior

\* C8, amended: a cycle whose collector rejects sends exactly one caError,
\* makes no cache lookup and no request and sends no summary; its one
\* publication is the empty set sent at its start, which replaces whatever
\* was published for the URI, and it publishes nothing after it.
C8_AbortOnParseError == []C8_Aborted /\ [][C8_AbortedStep]_vars

\* An aborted cycle that started while diagnostics were shown for its URI,
\* which now shows the empty set that cycle published.
C8_Witness ==
    \E c \in DOMAIN cycles :
        /\ cycles[c].pc = "aborted"
        /\ cycles[c].prior # << >>
        /\ published[cycles[c].uri] = [by |-> c, diagnostics |-> << >>]

\* ------------------------------------------------------------------- C9
LatestCycle(uri) ==
    LET of == {c \in DOMAIN cycles : cycles[c].uri = uri}
    IN  IF of = {} THEN 0 ELSE CHOOSE c \in of : \A d \in of : d <= c

\* C9: the diagnostics published for a URI are never those of a cycle older
\* than the latest cycle started for that URI.
C9_OnlyLatestCycleLive ==
    \A u \in URIs :
        published[u].diagnostics # << >> => published[u].by = LatestCycle(u)

\* ------------------------------------------------------------------ C12
\* The segments of a text, cut at its dots.
RECURSIVE Split(_, _)
Split(s, seg) ==
    IF s = << >> THEN << seg >>
    ELSE IF Head(s) = "." THEN << seg >> \o Split(Tail(s), << >>)
    ELSE Split(Tail(s), Append(seg, Head(s)))

WellFormedVersion(version) ==
    LET segs == Split(Trim(Chars(version)), << >>)
    IN  /\ Len(segs) \in 1..4
        /\ \A k \in DOMAIN segs :
              /\ segs[k] # << >>
              /\ \A i \in DOMAIN segs[k] : segs[k][i] \in AlNum

LookedUp(cyc, d) == \E i \in DOMAIN cyc.keys : cyc.keys[i] = d
IsHit(cyc, d) ==
    \E i \in DOMAIN cyc.hits : cyc.hits[i].package = d.name /\ cyc.hits[i].version = d.version
Queried(cyc, d) ==
    \E b \in DOMAIN cyc.batches :
        \E i \in DOMAIN cyc.batches[b].request.package_versions :
            cyc.batches[b].request.package_versions[i] = [package |-> d.name, version |-> d.version]
Diagnosed(cyc, d) ==
    \E i \in DOMAIN cyc.log :
        \E k \in DOMAIN cyc.log[i].diagnostics : cyc.log[i].diagnostics[k].package = d.name

\* C12: in a cycle for an ecosystem other than golang, a dependency whose
\* trimmed version text is not one to four non-empty alphanumeric segments
\* separated by dots is in no cache lookup, in no request and in no published
\* diagnostics, and the cycle sends no error notification; in a cycle for
\* golang every collected dependency is looked up, and is a hit or queried.
C12_VersionFilter ==
    \A c \in DOMAIN cycles :
        LET cyc == cycles[c]
            deps == Collect(cyc.contents)
        IN  cyc.pc \in {"await", "done"} =>
              \A i \in DOMAIN deps :
                  /\ (cyc.ecosystem # "golang" /\ ~WellFormedVersion(deps[i].version)) =>
                        /\ ~LookedUp(cyc, deps[i])
                        /\ ~IsHit(cyc, deps[i])
                        /\ ~Queried(cyc, deps[i])
                        /\ ~Diagnosed(cyc, deps[i])
                        /\ cyc.errors = 0
                  /\ cyc.ecosystem = "golang" =>
                        /\ LookedUp(cyc, deps[i])
                        /\ IsHit(cyc, deps[i]) \/ Queried(cyc, deps[i])

\* An npm cycle that dropped six of twenty declarations and flagged others,
\* and a golang cycle that queried and flagged a declaration of version ^1.0.
C12_Witness ==
    \E c, g \in DOMAIN cycles :
        /\ cycles[c].ecosystem = "npm"
        /\ cycles[c].pc = "done"
        /\ Len(Collect(cycles[c].contents)) = 20
        /\ Len(cycles[c].keys) = 14
        /\ cycles[c].diagnostics # << >>
        /\ cycles[g].ecosystem = "golang"
        /\ cycles[g].pc = "done"
        /\ \E i \in DOMAIN Collect(cycles[g].contents) :
              LET d == Collect(cycles[g].contents)[i]
              IN  ~WellFormedVersion(d.version) /\ Queried(cycles[g], d) /\ Diagnosed(cycles[g], d)

\* ------------------------------------------------------------------ C13
\* How often the identity (name, version) occurs among the cycle's cache
\* hits and the items of its requests.
Units(cyc, name, version) ==
    Cardinality({i \in DOMAIN cyc.hits :
                    cyc.hits[i].package = name /\ cyc.hits[i].version = version})
    + Cardinality({<<b, i>> \in (DOMAIN cyc.batches) \X (1..batchSize) :
                    /\ i \in DOMAIN cyc.batches[b].request.package_versions
                    /\ cyc.batches[b].request.package_versions[i]
                          = [package |-> name, version |-> version]})

\* C13: in a cycle, an identity (name, version) occurs at most once among the
\* cache hits and the request items taken together, however often the
\* manifest declares it, and the cycle's diagnostics hold at most one
\* diagnostic for it.
C13_DuplicatesCollapse ==
    \A c \in DOMAIN cycles :
        LET cyc == cycles[c]
            deps == Collect(cyc.contents)
        IN  \A i \in DOMAIN deps :
                /\ Units(cyc, deps[i].name, deps[i].version) <= 1
                /\ Cardinality({k \in DOMAIN cyc.diagnostics :
                                   cyc.diagnostics[k].package = deps[i].name}) <= 1

\* ------------------------------------------------------------------ C14
\* C14: when the engines throw on one record of a response, the other records
\* of that response are still processed and the run still publishes, the
\* cycle's requests are all issued and settle as they would have, and the
\* cycle sends its summary once they have; so for a throw in the run on the
\* cache hits as for a throw in the run on a batch's response.
C14_ThrowIsolated ==
    \A c \in DOMAIN cycles :
        LET cyc == cycles[c]
        IN  \A i \in DOMAIN cyc.log :
                cyc.log[i].ev = "throw" =>
                    /\ cyc.pc \in {"await", "done"}
                    /\ LogIdx(cyc, "publish", cyc.log[i].batch) # {}
                    /\ Len(cyc.hits) + Len(Flatten(SeqMap(LAMBDA x : x.request, cyc.batches)))
                          = Len(cyc.keys)
                    /\ AllSettled(cyc) => cyc.pc = "done" /\ Len(cyc.summary) = 1

\* ------------------------------------------------------------------ C16
\* The packages of the records a run has processed, in their order: run 0
\* is the run on the cache hits, run b the run on the response of request b.
RunItems(cyc, run) ==
    IF run = 0 THEN [i \in DOMAIN cyc.hits |-> cyc.hits[i].package]
    ELSE [i \in DOMAIN cyc.batches[run].request.package_versions |->
              cyc.batches[run].request.package_versions[i].package]

IsFlagged(p) == Advisory(p).vulnerabilityCount + Advisory(p).advisoryCount > 0

\* The publications of a cycle, in the order it sent them.
PublishSeq(cyc) == SelectSeq(cyc.log, LAMBDA e : e.ev = "publish")

\* C16: the first publication of a cycle is the empty set, the second is the
\* diagnostics of its cache hits, and every later one is the publication
\* before it followed by the diagnostics of the batch whose response was
\* processed then; so a publication extends the one before it, and holds
\* the diagnostics of the hits and then of the batches in order of arrival.
C16_IncrementalPublication ==
    \A c \in DOMAIN cycles :
        LET pubs == PublishSeq(cycles[c])
        IN  /\ pubs # << >>
            /\ pubs[1].batch = -1
            /\ pubs[1].diagnostics = << >>
            /\ \A k \in 2..Len(pubs) :
                  /\ pubs[k].batch = 0 <=> k = 2
                  /\ \A j \in 2..(k - 1) : pubs[j].batch # pubs[k].batch
                  /\ PackagesIn(pubs[k].diagnostics) =
                        PackagesIn(pubs[k - 1].diagnostics)
                            \o SelectSeq(RunItems(cycles[c], pubs[k].batch), IsFlagged)
                  /\ SubSeq(pubs[k].diagnostics, 1, Len(pubs[k - 1].diagnostics))
                        = pubs[k - 1].diagnostics

\* A cycle that published four times after the clearing, each time more: the
\* diagnostics of its hits, then those of its second batch, then of its first.
C16_Witness ==
    \E c \in DOMAIN cycles :
        LET pubs == PublishSeq(cycles[c])
        IN  /\ Len(pubs) = 4
            /\ pubs[3].batch = 2
            /\ pubs[4].batch = 1
            /\ Len(pubs[2].diagnostics) > 0
            /\ Len(pubs[3].diagnostics) > Len(pubs[2].diagnostics)
            /\ Len(pubs[4].diagnostics) > Len(pubs[3].diagnostics)

\* ------------------------------------------------------------------ C17
Identity(d) == [package |-> d.name, version |-> d.version]
RecordIdentity(r) == [package |-> r.package, version |-> r.version]
Items(cyc) == Flatten(SeqMap(LAMBDA x : x.request, cyc.batches))

\* C17: the valid dependencies of a cycle, entry by entry, are split in two:
\* the hits, whose cached records went through the pipeline in the run on the
\* hits and whose identity no request holds, and the misses, each of which
\* has its one item in one request; no entry is in both or in neither, and
\* the requests, in order, hold the misses in the order of the valid
\* dependencies.
C17_HitMissPartition ==
    \A c \in DOMAIN cycles :
        LET cyc == cycles[c]
            hit == SelectSeq(cyc.keys, LAMBDA d : IsHit(cyc, d))
            missed == SelectSeq(cyc.keys, LAMBDA d : ~IsHit(cyc, d))
        IN  Parsed(cyc) =>
              /\ SeqMap(RecordIdentity, cyc.hits) = SeqMap(Identity, hit)
              /\ Items(cyc) = SeqMap(Identity, missed)
              /\ Len(cyc.hits) + Len(Items(cyc)) = Len(cyc.keys)
              /\ \A i \in DOMAIN cyc.hits : \A k \in DOMAIN Items(cyc) :
                    RecordIdentity(cyc.hits[i]) # Items(cyc)[k]
              /\ PackagesIn(PublishSeq(cyc)[2].diagnostics)
                    = SelectSeq(RunItems(cyc, 0), IsFlagged)
              /\ \A b \in DOMAIN cyc.batches :
                    /\ cyc.batches[b].request.package_versions # << >>
                    /\ Len(cyc.batches[b].request.package_versions) <= batchSize

\* A cycle with hits, one of them flagged, and with misses in two requests.
C17_Witness ==
    \E c \in DOMAIN cycles :
        /\ Parsed(cycles[c])
        /\ Len(cycles[c].hits) >= 2
        /\ \E i \in DOMAIN cycles[c].hits : IsFlagged(cycles[c].hits[i].package)
        /\ Len(cycles[c].batches) = 2
        /\ Len(Items(cycles[c])) > batchSize

\* ------------------------------------------------------------------ C18
Superseded(c) == c \in DOMAIN cycles /\ c < LatestCycle(cycles[c].uri)

\* C18: a code-action request for a document never returns a quick fix that a
\* superseded cycle of that document registered, and when a cycle starts for
\* a document codeActionsMap holds no quick fix registered by an earlier
\* cycle of that document.
C18_CodeActionIndexFresh ==
    /\ step.kind = "codeAction" =>
          \A i \in DOMAIN codeActions.actions :
              LET a == codeActions.actions[i]
              IN  a.kind = "quickfix" =>
                    ~(cycles[a.by].uri = codeActions.uri /\ Superseded(a.by))
    /\ (step.kind \in {"open", "save", "timer"} /\ RunHandler(FileName(step.uri)) # 0) =>
          \A k \in DOMAIN codeActionsMap :
              ~(cycles[codeActionsMap[k].by].uri = step.uri /\ Superseded(codeActionsMap[k].by))

\* ------------------------------------------------------------------ C19
C19_OneTimer ==
    /\ Cardinality(timers) <= 1
    /\ \A t \in timers : t.id = checkDelay

C19_Step ==
    /\ step'.kind \in {"change", "save", "close"} /\ nEvents' = nEvents + 1 =>
          /\ \A t \in timers : t \notin timers'
          /\ \A t \in timers' : step'.kind = "change" /\ t.uri = step'.uri /\ t.id = nEvents'
          /\ step'.cancelled = (timers # {})
    /\ \A u \in URIs :
          (NewCycles > 0 /\ cycles'[Len(cycles')].uri = u) =>
              /\ step'.uri = u
              /\ cycles'[Len(cycles')].contents = file_data'[u]
              /\ \/ step'.kind \in {"open", "save"} /\ nEvents' = nEvents + 1
                 \/ /\ step'.kind = "timer"
                    /\ \E t \in timers : t.uri = u /\ t.id = checkDelay /\ timers' = timers \ {t}

\* C19: at most one debounce timer is pending, the one armed last; an edit, a
\* save or a close cancels it whatever the URI it was armed for, and only an
\* edit arms a new one, for its own URI; a cycle for a URI is started only by
\* an open or a save of that URI or by the pending timer armed for it, so a
\* document whose timer was cancelled by an event of another document is not
\* analysed before a later event of its own.
C19_SingleDebounceTimer == []C19_OneTimer /\ [][C19_Step]_vars

\* An edit of package.json, then inside its window an edit of go.mod, whose
\* timer has fired: go.mod was analysed, the edited package.json was not.
C19_Witness ==
    /\ nEvents = 2
    /\ checkDelay = 2
    /\ timers = {}
    /\ PackageJsonUri \in DOMAIN file_data
    /\ cycles # << >>
    /\ \A c \in DOMAIN cycles : cycles[c].uri = GoModUri

\* ------------------------------------------------------------------ C20
Counters == {"vulnerabilityCount", "advisoryCount", "exploitCount"}
Accumulators(cyc) == << cyc.diagnostics, cyc.totalCount >>

C20_Own ==
    \A c \in DOMAIN cycles :
        LET cyc == cycles[c]
            items == ProcessedItems(cyc)
        IN  /\ cyc.totalCount = [f \in Counters |-> SumOver(items, f)]
            /\ Len(cyc.diagnostics) = Len(SelectSeq(items, IsFlagged))
            /\ cyc.pc = "done" =>
                  /\ Len(cyc.summary) = 1
                  /\ cyc.summary[1].diagCount = Len(SelectSeq(items, IsFlagged))
                  /\ cyc.summary[1].vulnCount = [f \in Counters |-> SumOver(items, f)]

C20_Step ==
    /\ \A c \in DOMAIN cycles :
          /\ \A f \in Counters : cycles'[c].totalCount[f] >= cycles[c].totalCount[f]
          /\ Len(cycles'[c].diagnostics) >= Len(cycles[c].diagnostics)
          /\ cycles[c].pc = "done" => Accumulators(cycles'[c]) = Accumulators(cycles[c])
          /\ Accumulators(cycles'[c]) # Accumulators(cycles[c]) =>
                \A d \in DOMAIN cycles \ {c} : cycles'[d] = cycles[d]
    /\ \A c \in DOMAIN cycles' \ DOMAIN cycles :
          Accumulators(cycles'[c]) = << << >>, TotalCount >>

\* C20: every cycle has its own diagnostics array and its own three counters:
\* they start empty and at zero, never decrease, a step that adds to those of
\* one cycle leaves every other cycle as it was, and at every moment, and in
\* the summary the cycle sends, they hold exactly what the records of the
\* cycle's own cache hits and successful batches contribute.
C20_AccumulatorsPerCycle == []C20_Own /\ [][C20_Step]_vars

\* Two cycles overlap: the later one has sent its summary, with counts of its
\* own, while the earlier one, which has counted something already, still
\* waits for a response.
C20_Witness ==
    \E c \in DOMAIN cycles : \E d \in DOMAIN cycles :
        /\ c < d
        /\ cycles[c].pc = "await"
        /\ cycles[c].totalCount # TotalCount
        /\ cycles[d].pc = "done"
        /\ cycles[d].summary[1].vulnCount # TotalCount
        /\ cycles[d].summary[1].vulnCount # cycles[c].totalCount

====
